---- MODULE Spec2Model ----
(***************************************************************************)
(* State-machine model of the RAW editor (src/ClassRawEdit.py): the        *)
(* adjustment engine apply_adjustments, the EXIF helpers, and the slots of *)
(* RawEditor (load_raw, export_as_jpeg, show_metadata, the slider slots,   *)
(* update_preview, process_full_res) driven by the Qt event loop and the   *)
(* single-shot slider_update_timer.                                        *)
(*                                                                         *)
(* Numbers.  A float32 sample in [0..1] is an integer in 0..One (units of  *)
(* 1/One), every arithmetic step rounding to the nearest unit, so that the *)
(* finite precision of the float pipeline is kept and conversions are not  *)
(* identities.  Slider positions are the integers of QSlider (-100..100);  *)
(* the engine's exposure/saturation/vibrance arguments are those integers, *)
(* standing for value / 100.0.  Time is in milliseconds, advancing in      *)
(* steps of TickMs.                                                        *)
(***************************************************************************)
EXTENDS Integers, Sequences, FiniteSets, TLC

\* ------------------------------------------------------------------ bounds
\* process_full_res runs at most MaxCommits times in a behaviour (each run
\* compounds the stored buffer, so the count bounds the reachable buffers).
MaxCommits == 2

\* ------------------------------------------------------- program constants
\* rgb8.astype(np.float32) / 255.0
Max8 == 255
\* self.slider_update_timer.setInterval(300)
Interval == 300
\* value / 100.0 in the slider slots
SliderDiv == 100

\* One: the sample value 1.0 (four fixed-point units per 8-bit level).
One == Max8 * 4
\* Denominator of the fixed-point exposure multiplier 2.0 ** exposure.
ExpDen == 2 ^ 10
\* Granularity of the clock.
TickMs == Interval \div 2
\* Positions the sliders are moved to (within setRange(-100, 100)).
ExposureValues == {0, 100}
SaturationValues == {0, 100}
VibranceValues == {0, 100}

\* ----------------------------------------------------------------- helpers
Min2(a, b) == IF a <= b THEN a ELSE b
Max2(a, b) == IF a >= b THEN a ELSE b

\* a / b rounded to the nearest integer (b > 0), as a float operation rounds.
RoundDiv(a, b) == (2 * a + b) \div (2 * b)

\* np.clip(x, 0.0, 1.0) without its upper limit.
ClipNoUpper(x) == Max2(0, x)

\* np.clip(x, 0.0, 1.0)
Clip01(x) == Min2(One, Max2(0, x))

\* 2.0 ** exposure, as a multiple of 1/ExpDen; exposure in hundredths.
Pow2(exposure) ==
    CASE exposure = -100 -> 512
      [] exposure = -50  -> 724
      [] exposure = 0    -> 1024
      [] exposure = 50   -> 1448
      [] exposure = 100  -> 2048

\* cv2.cvtColor(img, cv2.COLOR_RGB2BGR) and COLOR_BGR2RGB: swap channels 1, 3.
SwapRB(p) == <<p[3], p[2], p[1]>>

\* cv2.cvtColor(bgr, cv2.COLOR_BGR2HSV) on one float pixel.  v = max,
\* s = (v - min) / v, h by the channel holding the maximum.  The hue is kept
\* in units of 60 degrees / One, in [0, 6 * One).
BGR2HSV(bgr) ==
    LET b == bgr[1]
        g == bgr[2]
        r == bgr[3]
        v == Max2(r, Max2(g, b))
        vmin == Min2(r, Min2(g, b))
        diff == v - vmin
        s == IF v = 0 THEN 0 ELSE RoundDiv(diff * One, v)
        h0 == IF diff = 0 THEN 0
              ELSE IF v = r THEN RoundDiv((g - b) * One, diff)
              ELSE IF v = g THEN RoundDiv((b - r) * One, diff) + 2 * One
              ELSE RoundDiv((r - g) * One, diff) + 4 * One
        h == IF h0 < 0 THEN h0 + 6 * One ELSE h0
    IN  <<h, s, v>>

\* COLOR_HSV2BGR that ignores hue and saturation.
HSV2BGRGrey(hsv) == <<hsv[3], hsv[3], hsv[3]>>

\* cv2.cvtColor(hsv, cv2.COLOR_HSV2BGR) on one float pixel: the sector of the
\* hue and its fraction select among v, v(1-s), v(1-s*f), v(1-s*(1-f)).
HSV2BGR(hsv) ==
    LET h == hsv[1] % (6 * One)
        s == hsv[2]
        v == hsv[3]
        sector == h \div One
        f == h % One
        tab == << v,
                  RoundDiv(v * (One - s), One),
                  RoundDiv(v * (One * One - s * f), One * One),
                  RoundDiv(v * (One * One - s * (One - f)), One * One) >>
        sector_data == << <<1, 3, 0>>, <<1, 0, 2>>, <<3, 0, 1>>,
                          <<0, 2, 1>>, <<0, 1, 3>>, <<2, 1, 0>> >>
        idx == sector_data[sector + 1]
    IN  IF s = 0 THEN <<v, v, v>>
        ELSE <<tab[idx[1] + 1], tab[idx[2] + 1], tab[idx[3] + 1]>>

\* s = np.clip(s + (s * saturation), 0.0, 1.0)
SaturationStep(s, saturation) ==
    Clip01(s + RoundDiv(s * saturation, SliderDiv))

\* s = np.clip(s + (s * vibrance * (1.0 - s)), 0.0, 1.0)
VibranceStep(s, vibrance) ==
    Clip01(s + RoundDiv(s * vibrance * (One - s), SliderDiv * One))

\* img_float * exposure_mult, then np.clip(img_float, 0.0, 1.0), one sample.
ExposureStep(c, exposure) ==
    Clip01(RoundDiv(c * Pow2(exposure), ExpDen))

\* apply_adjustments on one pixel with the vibrance line before the
\* saturation line.
AdjustPixelVibranceFirst(p, exposure, saturation, vibrance) ==
    LET e == <<ExposureStep(p[1], exposure), ExposureStep(p[2], exposure),
               ExposureStep(p[3], exposure)>>
        hsv == BGR2HSV(SwapRB(e))
        s1 == VibranceStep(hsv[2], vibrance)
        s2 == SaturationStep(s1, saturation)
        rgb == SwapRB(HSV2BGR(<<hsv[1], s2, hsv[3]>>))
    IN  <<Clip01(rgb[1]), Clip01(rgb[2]), Clip01(rgb[3])>>

\* apply_adjustments on one pixel, in the order of the source.
AdjustPixel(p, exposure, saturation, vibrance) ==
    LET e == <<ExposureStep(p[1], exposure), ExposureStep(p[2], exposure),
               ExposureStep(p[3], exposure)>>
        hsv == BGR2HSV(SwapRB(e))
        s1 == SaturationStep(hsv[2], saturation)
        s2 == VibranceStep(s1, vibrance)
        rgb == SwapRB(HSV2BGR(<<hsv[1], s2, hsv[3]>>))
    IN  <<Clip01(rgb[1]), Clip01(rgb[2]), Clip01(rgb[3])>>

\* An image is [w, h, px]: px the pixels in row-major order.
apply_adjustments(img_float, exposure, saturation, vibrance) ==
    [w |-> img_float.w, h |-> img_float.h,
     px |-> [i \in 1..Len(img_float.px) |->
               AdjustPixel(img_float.px[i], exposure, saturation, vibrance)]]

\* The absent image (self.full_image = None, self.preview_image = None).
NoImage == [w |-> 0, h |-> 0, px |-> <<>>]

\* (img * 255.0).clip(0, 255).astype(np.uint8): truncation to 8 bits.
To8(img) ==
    [w |-> img.w, h |-> img.h,
     px |-> [i \in 1..Len(img.px) |->
               <<Min2(Max8, Max2(0, (img.px[i][1] * Max8) \div One)),
                 Min2(Max8, Max2(0, (img.px[i][2] * Max8) \div One)),
                 Min2(Max8, Max2(0, (img.px[i][3] * Max8) \div One))>>]]

\* rgb8.astype(np.float32) / 255.0
Normalize(rgb8) ==
    [w |-> rgb8.w, h |-> rgb8.h,
     px |-> [i \in 1..Len(rgb8.px) |->
               <<RoundDiv(rgb8.px[i][1] * One, Max8),
                 RoundDiv(rgb8.px[i][2] * One, Max8),
                 RoundDiv(rgb8.px[i][3] * One, Max8)>>]]

\* ------------------------------------------------ cv2.resize, INTER_AREA
\* self.preview_scale = 0.25: int(w * 0.25) = w \div PreviewDiv
PreviewDiv == 4

\* Length, in units of 1/m source pixel, of the part of source cell s that
\* lies in destination cell d when n source cells are resized to m.
Overlap(d, s, n, m) ==
    Max2(0, Min2((s + 1) * m, (d + 1) * n) - Max2(s * m, d * n))

RECURSIVE SumTo(_, _)
\* f[0] + ... + f[k - 1]
SumTo(f, k) == IF k = 0 THEN 0 ELSE f[k - 1] + SumTo(f, k - 1)

\* The area-weighted mean of channel c of img over destination cell (i, j).
AreaMean(img, pw, ph, i, j, c) ==
    LET cell == [k \in 0..(img.w * img.h - 1) |->
                   Overlap(i, k % img.w, img.w, pw)
                   * Overlap(j, k \div img.w, img.h, ph)
                   * img.px[k + 1][c]]
    IN  RoundDiv(SumTo(cell, img.w * img.h), img.w * img.h)

\* cv2.resize(img, (pw, ph), interpolation=cv2.INTER_AREA); cv2 raises when
\* the requested size is empty.
Resize(img, pw, ph) ==
    IF pw <= 0 \/ ph <= 0
    THEN [ok |-> FALSE, img |-> NoImage]
    ELSE [ok |-> TRUE,
          img |-> [w |-> pw, h |-> ph,
                   px |-> [k \in 1..(pw * ph) |->
                     <<AreaMean(img, pw, ph, (k - 1) % pw, (k - 1) \div pw, 1),
                       AreaMean(img, pw, ph, (k - 1) % pw, (k - 1) \div pw, 2),
                       AreaMean(img, pw, ph, (k - 1) % pw, (k - 1) \div pw, 3)>>]]]

\* ------------------------------------------------------------------- EXIF
\* A string is a sequence of one-character strings; a dict is a function
\* from tag names to strings.  A float is an integer count of thousandths.
EmptyDict == [k \in {} |-> <<>>]

Digits == {"0", "1", "2", "3", "4", "5", "6", "7", "8", "9"}

DigitVal(c) ==
    CASE c = "0" -> 0 [] c = "1" -> 1 [] c = "2" -> 2 [] c = "3" -> 3
      [] c = "4" -> 4 [] c = "5" -> 5 [] c = "6" -> 6 [] c = "7" -> 7
      [] c = "8" -> 8 [] c = "9" -> 9

RECURSIVE LStrip(_)
LStrip(s) == IF s # <<>> /\ Head(s) = " " THEN LStrip(Tail(s)) ELSE s

RECURSIVE RStrip(_)
RStrip(s) ==
    IF s # <<>> /\ s[Len(s)] = " " THEN RStrip(SubSeq(s, 1, Len(s) - 1)) ELSE s

\* str.strip()
Strip(s) == LStrip(RStrip(s))

RECURSIVE TakeToken(_)
\* The longest prefix without whitespace.
TakeToken(s) ==
    IF s = <<>> \/ Head(s) = " " THEN <<>> ELSE <<Head(s)>> \o TakeToken(Tail(s))

\* s.split()[0] without the split: the whole string.
FirstTokenWhole(s) == [ok |-> TRUE, tok |-> s]

\* s.split()[0]: ok is FALSE where the index raises (no token at all).
FirstToken(s) ==
    LET t == LStrip(s)
    IN  IF t = <<>> THEN [ok |-> FALSE, tok |-> <<>>]
        ELSE [ok |-> TRUE, tok |-> TakeToken(t)]

RECURSIVE DigitsValue(_)
\* The number a sequence of digits denotes.
DigitsValue(ds) ==
    IF ds = <<>> THEN 0
    ELSE 10 * DigitsValue(SubSeq(ds, 1, Len(ds) - 1)) + DigitVal(ds[Len(ds)])

\* float(s) for strings of digits, ".", " " and other characters: surrounding
\* whitespace is ignored, then digits with at most one "." and at least one
\* digit are required; anything else raises (ok FALSE).  Thousandths.
ParseFloat(s) ==
    LET t == Strip(s)
        dots == {i \in 1..Len(t) : t[i] = "."}
        wellFormed == /\ t # <<>>
                      /\ \A i \in 1..Len(t) : t[i] \in Digits \cup {"."}
                      /\ Cardinality(dots) <= 1
                      /\ \E i \in 1..Len(t) : t[i] \in Digits
        dot == IF dots = {} THEN Len(t) + 1 ELSE CHOOSE i \in dots : TRUE
        ip == SubSeq(t, 1, dot - 1)
        fp == SubSeq(t, dot + 1, Len(t))
        fp3 == SubSeq(fp \o <<"0", "0", "0">>, 1, 3)
    IN  IF wellFormed
        THEN [ok |-> TRUE, val |-> 1000 * DigitsValue(ip) + DigitsValue(fp3)]
        ELSE [ok |-> FALSE, val |-> 0]

\* exif_dict.get(key, default)
DictGet(d, key, default) == IF key \in DOMAIN d THEN d[key] ELSE default

parse_camera_lens_exif(exif_dict) ==
    LET camera_make == DictGet(exif_dict, "Image Make", <<>>)
        camera_model == DictGet(exif_dict, "Image Model", <<>>)
        lens_model == DictGet(exif_dict, "EXIF LensModel", <<>>)
        focal_str == DictGet(exif_dict, "EXIF FocalLength", <<"5", "0">>)
        fnumber_str == DictGet(exif_dict, "EXIF FNumber", <<"2", ".", "8">>)
        tok == FirstToken(focal_str)
        focal == IF tok.ok THEN ParseFloat(tok.tok) ELSE [ok |-> FALSE, val |-> 0]
        fnum == ParseFloat(fnumber_str)
    IN  [camera_make |-> Strip(camera_make),
         camera_model |-> Strip(camera_model),
         lens_model |-> Strip(lens_model),
         focal_length |-> IF focal.ok THEN focal.val ELSE 50000,
         f_number |-> IF fnum.ok THEN fnum.val ELSE 2800]

\* ------------------------------------------------------------ the files
\* What the file dialog can return and what rawpy / exifread make of it:
\* decodes (rawpy.imread and postprocess succeed), the 8-bit raster, whether
\* exifread can read the file, and its tags.
Palette ==
    << <<200, 100, 50>>, <<50, 100, 200>>, <<128, 128, 128>>, <<255, 0, 0>>,
       <<0, 0, 0>>, <<255, 255, 255>>, <<30, 220, 120>>, <<90, 60, 150>> >>

Raster(w, h, shift) ==
    [w |-> w, h |-> h,
     px |-> [i \in 1..(w * h) |-> Palette[((i * shift + (i \div 3)) % 8) + 1]]]

TagsA ==
    [k \in {"Image Make", "Image Model", "EXIF LensModel",
            "EXIF FocalLength", "EXIF FNumber"} |->
       CASE k = "Image Make" -> <<"S", "O", "N", "Y">>
         [] k = "Image Model" -> <<"A", "7", " ">>
         [] k = "EXIF LensModel" -> <<"F", "E", " ", "5", "5">>
         [] k = "EXIF FocalLength" -> <<"5", "6", ".", "0", " ", "m", "m">>
         [] k = "EXIF FNumber" -> <<"1", "4", "/", "5">>]

TagsB ==
    [k \in {"Image Make", "EXIF FNumber"} |->
       CASE k = "Image Make" -> <<" ", "N", "K">>
         [] k = "EXIF FNumber" -> <<"4", ".", "0">>]

FileNames == {"a.arw", "b.dng", "tiny.nef", "bad.cr2"}

\* Files opened where the engine is exercised over its whole parameter range.
EngineFiles == {"a.arw", "c.raf"}

File(filename) ==
    CASE filename = "a.arw" ->
           [decodes |-> TRUE, rgb8 |-> Raster(4, 4, 1),
            exif_ok |-> TRUE, tags |-> TagsA]
      [] filename = "b.dng" ->
           [decodes |-> TRUE, rgb8 |-> Raster(5, 4, 3),
            exif_ok |-> FALSE, tags |-> TagsB]
      [] filename = "tiny.nef" ->
           [decodes |-> TRUE, rgb8 |-> Raster(2, 4, 5),
            exif_ok |-> TRUE, tags |-> TagsB]
      [] filename = "bad.cr2" ->
           [decodes |-> FALSE, rgb8 |-> NoImage,
            exif_ok |-> TRUE, tags |-> TagsA]
      [] filename = "c.raf" ->
           [decodes |-> TRUE, rgb8 |-> Raster(8, 8, 3),
            exif_ok |-> TRUE, tags |-> TagsA]

\* read_exif_metadata that returns the tags even when exifread raises.
read_exif_metadata_unguarded(filename) == File(filename).tags

\* read_exif_metadata: the tags, or the empty dict when exifread raises.
read_exif_metadata(filename) ==
    IF File(filename).exif_ok THEN File(filename).tags ELSE EmptyDict

\* ------------------------------------------------------------------ state
VARIABLES
    full_image,         \* self.full_image (NoImage for None)
    preview_image,      \* self.preview_image (NoImage for None)
    metadata_dict,      \* self.metadata_dict
    camera_info,        \* self.camera_info
    current_filename,   \* self.current_filename ("None" for None)
    exposure_slider,    \* self.exposure_slider.value()
    saturation_slider,  \* self.saturation_slider.value()
    vibrance_slider,    \* self.vibrance_slider.value()
    pixmap,             \* what self.preview_label shows (NoImage: the text)
    timer,              \* slider_update_timer: ms left of each scheduled timeout
    dialog,             \* the modal dialog that is open: "none" or "save"
    encoded,            \* the buffer the last step handed to cv2.imwrite, with its path
    lastOp,             \* history: the slot or event that ran last (a release notes a restart)
    nCommits,           \* history: runs of process_full_res on an image
    exportPre,          \* history: full_image when the running export was called
    sinceChange,        \* history: ms since the last slider value change (capped)
    burstLen,           \* history: 1 once a value change was made since the load
    burstCommits,       \* history: timer-triggered commits since the burst began (2 = more)
    exported            \* history: an export has returned and no slider was touched since

core == <<full_image, preview_image, metadata_dict, camera_info,
          current_filename, exposure_slider, saturation_slider,
          vibrance_slider, pixmap, timer, dialog, encoded, lastOp,
          nCommits, exportPre>>

clock == <<sinceChange, burstLen, burstCommits, exported>>

vars == <<core, clock>>

\* The session: the buffers, the metadata and the three parameters.
Session == <<full_image, preview_image, metadata_dict, camera_info,
             current_filename, exposure_slider, saturation_slider,
             vibrance_slider>>

NoEncoded == [path |-> "", img |-> NoImage]

\* Longest time the model keeps counting since the last change.
SinceCap == Interval + TickMs

Init ==
    /\ full_image = NoImage
    /\ preview_image = NoImage
    /\ metadata_dict = EmptyDict
    /\ camera_info = EmptyDict
    /\ current_filename = "None"
    /\ exposure_slider = 0
    /\ saturation_slider = 0
    /\ vibrance_slider = 0
    /\ pixmap = NoImage
    /\ timer = {}
    /\ dialog = "none"
    /\ encoded = NoEncoded
    /\ lastOp = "init"
    /\ nCommits = 0
    /\ exportPre = NoImage
    /\ sinceChange = SinceCap
    /\ burstLen = 0
    /\ burstCommits = 0
    /\ exported = FALSE

\* ------------------------------------------------------- image processing
\* update_preview without the copy: the adjusted preview becomes the stored one.
StoredPreviewOverwritten(preview, adjusted) == adjusted

\* preview_copy = self.preview_image.copy(): the stored preview after
\* update_preview has computed `adjusted` from it.
StoredPreview(preview, adjusted) == preview

\* update_preview: what preview_label shows afterwards.
update_preview(preview, exposure_val, sat_val, vib_val, shown) ==
    IF preview = NoImage THEN shown
    ELSE To8(apply_adjustments(preview, exposure_val, sat_val, vib_val))

\* process_full_res that returns before adjusting.
process_full_res_skipped(full, exposure_val, sat_val, vib_val) == full

\* process_full_res that applies the exposure only.
process_full_res_exposure_only(full, exposure_val, sat_val, vib_val) ==
    IF full = NoImage THEN full
    ELSE apply_adjustments(full, exposure_val, 0, 0)

\* process_full_res: self.full_image afterwards.
process_full_res(full, exposure_val, sat_val, vib_val) ==
    IF full = NoImage THEN full
    ELSE apply_adjustments(full, exposure_val, sat_val, vib_val)

\* QTimer.start() that leaves a running countdown as it is.
TimerStartNoRestart(t) == IF t = {} THEN {Interval} ELSE t

\* QTimer.start(): stops the timer if it runs and schedules one timeout
\* after the interval.
TimerStart(t) == {Interval}

\* setValue(0) that leaves the slider where it is.
SliderResetKept(value) == value

\* self.<slider>.setValue(0) in load_raw: the slider's value afterwards.
SliderReset(value) == 0

\* final_bgr: (self.full_image * 255.0).clip(0, 255).astype(np.uint8), then
\* cv2.COLOR_RGB2BGR.
FinalBGR(full) ==
    [w |-> full.w, h |-> full.h,
     px |-> [i \in 1..Len(full.px) |-> SwapRB(To8(full).px[i])]]

\* ----------------------------------------------------------------- slots
\* A slider value change: the slider holds the new value, valueChanged runs
\* the slot, which calls update_preview.
ValueChanged(e, s, v, op) ==
    /\ dialog = "none"
    /\ exposure_slider' = e
    /\ saturation_slider' = s
    /\ vibrance_slider' = v
    /\ pixmap' = update_preview(preview_image, e, s, v, pixmap)
    /\ preview_image' =
         IF preview_image = NoImage THEN preview_image
         ELSE StoredPreview(preview_image,
                            apply_adjustments(preview_image, e, s, v))
    /\ lastOp' = op
    /\ encoded' = NoEncoded
    /\ UNCHANGED <<full_image, metadata_dict, camera_info, current_filename,
                   timer, dialog, nCommits, exportPre>>

on_exposure_changed(value) ==
    /\ value # exposure_slider
    /\ ValueChanged(value, saturation_slider, vibrance_slider, "on_exposure_changed")

on_saturation_changed(value) ==
    /\ value # saturation_slider
    /\ ValueChanged(exposure_slider, value, vibrance_slider, "on_saturation_changed")

on_vibrance_changed(value) ==
    /\ value # vibrance_slider
    /\ ValueChanged(exposure_slider, saturation_slider, value, "on_vibrance_changed")

on_slider_released ==
    /\ dialog = "none"
    /\ timer' = TimerStart(timer)
    /\ lastOp' = IF timer = {} THEN "on_slider_released"
                 ELSE "on_slider_released_restart"
    /\ encoded' = NoEncoded
    /\ UNCHANGED <<full_image, preview_image, metadata_dict, camera_info,
                   current_filename, exposure_slider, saturation_slider,
                   vibrance_slider, pixmap, dialog, nCommits, exportPre>>

\* The clock advances by TickMs; a timeout that is due is delivered first.
Tick ==
    /\ \A d \in timer : d > 0
    /\ timer' = {Max2(0, d - TickMs) : d \in timer}
    /\ lastOp' = "tick"
    /\ encoded' = NoEncoded
    /\ UNCHANGED <<full_image, preview_image, metadata_dict, camera_info,
                   current_filename, exposure_slider, saturation_slider,
                   vibrance_slider, pixmap, dialog, nCommits, exportPre>>

\* slider_update_timer.timeout -> process_full_res.  Single shot: the timeout
\* delivered is no longer scheduled.  Timers run while a dialog is open.
Timeout ==
    /\ \E d \in timer :
         /\ d = 0
         /\ timer' = timer \ {d}
    /\ full_image # NoImage => nCommits < MaxCommits
    /\ full_image' = process_full_res(full_image, exposure_slider,
                                      saturation_slider, vibrance_slider)
    /\ nCommits' = IF full_image = NoImage THEN nCommits ELSE nCommits + 1
    /\ lastOp' = "timeout"
    /\ encoded' = NoEncoded
    /\ UNCHANGED <<preview_image, metadata_dict, camera_info, current_filename,
                   exposure_slider, saturation_slider, vibrance_slider, pixmap,
                   dialog, exportPre>>

\* Paths the save dialog can return ("" when it is cancelled) and whether
\* cv2.imwrite can write there.
SavePaths == {"", "out.jpg", "/readonly/out.jpg"}
Writable(save_path) == save_path = "out.jpg"

\* What load_raw computes from each file before it reads the metadata:
\* the decoded raster as float [0..1] and the preview cv2.resize makes of it.
Decoded ==
    [filename \in FileNames \cup EngineFiles |->
       IF File(filename).decodes
       THEN LET full == Normalize(File(filename).rgb8)
            IN  [full |-> full,
                 resized |-> Resize(full, full.w \div PreviewDiv,
                                    full.h \div PreviewDiv)]
       ELSE [full |-> NoImage, resized |-> [ok |-> FALSE, img |-> NoImage]]]

\* load_raw, with the dict read_exif_metadata returns for the file as
\* `metadata`.  filename is what the open dialog returns ("" when cancelled).
\* Statements run in the order of the source and an exception (rawpy on an
\* undecodable file, cv2.resize on an empty preview size) ends the slot in
\* the except clause, keeping the assignments made before it.
load_raw_tags(filename, metadata) ==
    /\ dialog = "none"
    /\ IF filename = ""
       THEN /\ lastOp' = "load_cancelled"
            /\ UNCHANGED <<full_image, preview_image, metadata_dict,
                           camera_info, current_filename, exposure_slider,
                           saturation_slider, vibrance_slider, pixmap>>
       ELSE IF ~File(filename).decodes
       THEN /\ lastOp' = "load_failed"
            /\ UNCHANGED <<full_image, preview_image, metadata_dict,
                           camera_info, current_filename, exposure_slider,
                           saturation_slider, vibrance_slider, pixmap>>
       ELSE IF ~Decoded[filename].resized.ok
       THEN /\ full_image' = Decoded[filename].full
            /\ lastOp' = "load_failed"
            /\ UNCHANGED <<preview_image, metadata_dict, camera_info,
                           current_filename, exposure_slider,
                           saturation_slider, vibrance_slider, pixmap>>
       ELSE /\ full_image' = Decoded[filename].full
            /\ preview_image' = Decoded[filename].resized.img
            /\ metadata_dict' = metadata
            /\ camera_info' = parse_camera_lens_exif(metadata)
            /\ current_filename' = filename
            /\ exposure_slider' = SliderReset(exposure_slider)
            /\ saturation_slider' = SliderReset(saturation_slider)
            /\ vibrance_slider' = SliderReset(vibrance_slider)
            /\ pixmap' = update_preview(Decoded[filename].resized.img,
                                        exposure_slider', saturation_slider',
                                        vibrance_slider', pixmap)
            /\ lastOp' = "load_ok"
    /\ encoded' = NoEncoded
    /\ UNCHANGED <<timer, dialog, nCommits, exportPre>>

\* load_raw: the metadata is what read_exif_metadata makes of the file.
load_raw(filename) == load_raw_tags(filename, read_exif_metadata(filename))

\* export_as_jpeg up to the save dialog: nothing without an image, else
\* process_full_res and the dialog opens.
export_as_jpeg ==
    /\ dialog = "none"
    /\ IF full_image = NoImage
       THEN /\ lastOp' = "export_noop"
            /\ UNCHANGED <<full_image, dialog, nCommits, exportPre>>
       ELSE /\ nCommits < MaxCommits
            /\ full_image' = process_full_res(full_image, exposure_slider,
                                              saturation_slider, vibrance_slider)
            /\ nCommits' = nCommits + 1
            /\ exportPre' = full_image
            /\ dialog' = "save"
            /\ lastOp' = "export_committed"
    /\ encoded' = NoEncoded
    /\ UNCHANGED <<preview_image, metadata_dict, camera_info, current_filename,
                   exposure_slider, saturation_slider, vibrance_slider, pixmap,
                   timer>>

\* export_as_jpeg from the save dialog's return: with a path, the stored
\* image goes to cv2.imwrite as 8-bit BGR; imwrite writes it or fails.
export_save(save_path) ==
    /\ dialog = "save"
    /\ dialog' = "none"
    /\ exportPre' = NoImage
    /\ IF save_path = ""
       THEN /\ lastOp' = "export_cancelled"
            /\ encoded' = NoEncoded
       ELSE /\ encoded' = [path |-> save_path, img |-> FinalBGR(full_image)]
            /\ lastOp' = IF Writable(save_path) THEN "export_written"
                         ELSE "export_failed"
    /\ UNCHANGED <<full_image, preview_image, metadata_dict, camera_info,
                   current_filename, exposure_slider, saturation_slider,
                   vibrance_slider, pixmap, timer, nCommits>>

\* show_metadata: nothing with an empty dict, else the modal dialog is shown
\* until the user closes it; the slot does nothing after dialog.exec_().
show_metadata ==
    /\ dialog = "none"
    /\ lastOp' = IF metadata_dict = EmptyDict THEN "metadata_noop"
                 ELSE "show_metadata"
    /\ encoded' = NoEncoded
    /\ UNCHANGED <<full_image, preview_image, metadata_dict, camera_info,
                   current_filename, exposure_slider, saturation_slider,
                   vibrance_slider, pixmap, timer, dialog, nCommits, exportPre>>

\* The values of lastOp after export_as_jpeg has returned, and after a
\* slider release.
ExportReturned == {"export_written", "export_failed", "export_cancelled"}
Released == {"on_slider_released", "on_slider_released_restart"}

\* The slots that run on a slider's valueChanged.
ChangeOps == {"on_exposure_changed", "on_saturation_changed",
              "on_vibrance_changed"}

\* The clock history is not kept.
ClockOff == UNCHANGED clock

\* The clock history over the step the program has just taken (lastOp' names
\* it): the time since the last value change, whether a burst of changes has
\* begun since the load, and the timer-triggered commits since the burst
\* began.  A change less than Interval after the previous one continues the
\* burst; a later one begins a new burst.
ClockOn ==
    /\ sinceChange' =
         IF lastOp' \in ChangeOps THEN 0
         ELSE IF lastOp' = "load_ok" THEN SinceCap
         ELSE IF lastOp' = "tick" THEN Min2(SinceCap, sinceChange + TickMs)
         ELSE sinceChange
    /\ burstLen' =
         IF lastOp' \in ChangeOps THEN 1
         ELSE IF lastOp' = "load_ok" THEN 0
         ELSE burstLen
    /\ burstCommits' =
         IF lastOp' \in ChangeOps
         THEN (IF burstLen = 1 /\ sinceChange < Interval
               THEN burstCommits ELSE 0)
         ELSE IF lastOp' = "load_ok" THEN 0
         ELSE IF lastOp' = "timeout" /\ full_image # NoImage /\ burstLen = 1
         THEN Min2(2, burstCommits + 1)
         ELSE burstCommits
    /\ exported' =
         IF lastOp' \in ExportReturned THEN TRUE
         ELSE IF lastOp' \in ChangeOps \cup Released \cup {"load_ok"} THEN FALSE
         ELSE exported

\* The events of the program: the user's and the event loop's.
Next ==
    \/ \E filename \in FileNames \cup {""} : load_raw(filename) /\ ClockOff
    \/ export_as_jpeg /\ ClockOff
    \/ \E save_path \in SavePaths : export_save(save_path) /\ ClockOff
    \/ show_metadata /\ ClockOff
    \/ \E value \in ExposureValues : on_exposure_changed(value) /\ ClockOff
    \/ \E value \in SaturationValues : on_saturation_changed(value) /\ ClockOff
    \/ \E value \in VibranceValues : on_vibrance_changed(value) /\ ClockOff
    \/ on_slider_released /\ ClockOff
    \/ Tick /\ ClockOff
    \/ Timeout /\ ClockOff

Spec == Init /\ [][Next]_vars

\* Files offered to the open dialog where the clock history is kept.
ClockFiles == {"a.arw", "bad.cr2"}

\* The same events with the clock history kept.
NextClock ==
    \/ \E filename \in ClockFiles \cup {""} : load_raw(filename) /\ ClockOn
    \/ export_as_jpeg /\ ClockOn
    \/ \E save_path \in SavePaths : export_save(save_path) /\ ClockOn
    \/ show_metadata /\ ClockOn
    \/ \E value \in ExposureValues : on_exposure_changed(value) /\ ClockOn
    \/ \E value \in SaturationValues : on_saturation_changed(value) /\ ClockOn
    \/ \E value \in VibranceValues : on_vibrance_changed(value) /\ ClockOn
    \/ on_slider_released /\ ClockOn
    \/ Tick /\ ClockOn
    \/ Timeout /\ ClockOn

SpecClock == Init /\ [][NextClock]_vars

\* ------------------------------------------------- loads over EXIF contents
\* Values of the 'EXIF FocalLength' tag with what Python makes of
\* float(value.split()[0]): whether it parses and, if so, its value in
\* thousandths.
FocalCases ==
    { [str |-> <<"5", "6", ".", "0", " ", "m", "m">>, parses |-> TRUE, val |-> 56000],
      [str |-> <<"5", "6">>, parses |-> TRUE, val |-> 56000],
      [str |-> <<" ", "8", " ", "m", "m">>, parses |-> TRUE, val |-> 8000],
      [str |-> <<".", "5", " ", "x">>, parses |-> TRUE, val |-> 500],
      [str |-> <<"3", "5", "/", "2">>, parses |-> FALSE, val |-> 0],
      [str |-> <<"1", ".", "2", ".", "3">>, parses |-> FALSE, val |-> 0],
      [str |-> <<"m", "m", " ", "5", "6">>, parses |-> FALSE, val |-> 0],
      [str |-> <<" ">>, parses |-> FALSE, val |-> 0],
      [str |-> <<>>, parses |-> FALSE, val |-> 0] }

\* Values of the 'EXIF FNumber' tag with what Python makes of float(value).
FNumberCases ==
    { [str |-> <<"4", ".", "0">>, parses |-> TRUE, val |-> 4000],
      [str |-> <<" ", "2", " ">>, parses |-> TRUE, val |-> 2000],
      [str |-> <<"5", ".">>, parses |-> TRUE, val |-> 5000],
      [str |-> <<"1", "4", "/", "5">>, parses |-> FALSE, val |-> 0],
      [str |-> <<"2", " ", "8">>, parses |-> FALSE, val |-> 0],
      [str |-> <<"f", "4">>, parses |-> FALSE, val |-> 0],
      [str |-> <<>>, parses |-> FALSE, val |-> 0] }

MakeValues == { <<"S", "O", "N", "Y">>, <<" ", "N", "K", " ">> }

\* The tags parse_camera_lens_exif looks up.
ExifKeys == {"Image Make", "Image Model", "EXIF LensModel",
             "EXIF FocalLength", "EXIF FNumber"}

\* The dicts exifread can produce here: any subset of the keys, with the
\* values above.
ExifDicts ==
    { [k \in keys |->
         CASE k = "Image Make" -> mk
           [] k = "Image Model" -> <<"A", "7", " ">>
           [] k = "EXIF LensModel" -> <<"F", "E", " ", "5", "5">>
           [] k = "EXIF FocalLength" -> fc.str
           [] k = "EXIF FNumber" -> nc.str] :
      keys \in SUBSET ExifKeys, mk \in MakeValues,
      fc \in FocalCases, nc \in FNumberCases }

\* Loads of a RAW file whose EXIF tags are any of ExifDicts.
NextExif ==
    \E tags \in ExifDicts : load_raw_tags("a.arw", tags) /\ ClockOff

SpecExif == Init /\ [][NextExif]_vars

\* ------------------------------------------------------------- properties
\* A successful load has happened.
Loaded == current_filename # "None"

\* Every sample of the image lies in [0..1].
InRange(img) ==
    \A i \in 1..Len(img.px) : \A c \in 1..3 : img.px[i][c] \in 0..One

\* One 8-bit level, the tolerance of "equal" between float buffers.
Tol == One \div Max8

\* The two images have the same size and their samples differ by at most Tol.
SameImage(a, b) ==
    /\ a.w = b.w
    /\ a.h = b.h
    /\ \A i \in 1..Len(a.px) : \A c \in 1..3 :
         a.px[i][c] - b.px[i][c] \in (0 - Tol)..Tol

\* C1 (as claimed): a burst of value changes on a loaded session, each less
\* than Interval after the previous one, gets exactly one timer-triggered
\* commit, and that commit fires when Interval has elapsed since the last
\* change of the burst, not before and not later.
C1_DebounceCoalescing ==
    /\ (Loaded /\ burstLen = 1 /\ sinceChange > Interval /\ nCommits < MaxCommits)
          => burstCommits = 1
    /\ (Loaded /\ burstLen = 1 /\ lastOp = "timeout")
          => sinceChange = Interval

C3_LoadFailureAtomic ==
    [][(Loaded /\ lastOp' = "load_failed") => Session' = Session]_vars

\* C4 (as claimed): every value change on a loaded session (re)starts the
\* countdown, so that a commit with the values of that change is scheduled.
C4_ChangeStartsCountdown ==
    [][(Loaded /\ lastOp' \in ChangeOps) => timer' = {Interval}]_vars

\* C5: at most one commit is pending at any time; a slider release schedules
\* exactly one timeout a full interval away, cancelling a countdown already
\* running; and the timeout, once delivered, is no longer pending.
C5_RestartableCountdown ==
    [][ /\ Cardinality(timer') <= 1
        /\ lastOp' \in Released => timer' = {Interval}
        /\ lastOp' = "timeout" => timer' = {}
      ]_vars

\* C5 witness: a release arrived while a countdown was running, and the
\* countdown now runs a full interval again.
C5_Witness ==
    /\ lastOp = "on_slider_released_restart"
    /\ timer = {Interval}

\* C6: a value change and the update_preview it runs leave the stored
\* full-res and preview buffers as they were; the stored preview is always
\* the one derived at load, and what is displayed is computed from it with
\* the current parameters.
C6_ChangeKeepsBuffers ==
    /\ [][lastOp' \in ChangeOps =>
             /\ full_image' = full_image
             /\ preview_image' = preview_image]_vars
    /\ [](preview_image # NoImage =>
             /\ preview_image = Decoded[current_filename].resized.img
             /\ pixmap = To8(apply_adjustments(preview_image, exposure_slider,
                                               saturation_slider,
                                               vibrance_slider)))

\* C6 witness: several value changes were made on a loaded session with no
\* commit so far.
C6_Witness ==
    /\ lastOp \in ChangeOps
    /\ Loaded
    /\ exposure_slider = 100
    /\ vibrance_slider = 100
    /\ nCommits = 0
    /\ full_image = Decoded[current_filename].full

\* C7 (as claimed): a burst of changes followed by an export gets at most
\* one timer-triggered commit, and once the export has returned no further
\* commit fires unless a slider is touched again.
C7_NoCommitAfterExport ==
    [][(Loaded /\ burstLen = 1 /\ exported) =>
          /\ burstCommits <= 1
          /\ ~(lastOp' = "timeout" /\ full_image' # full_image)]_vars

\* C8 (as claimed): an export that writes no file (the path is not writable,
\* or the dialog is cancelled) leaves the session as it was before the call.
C8_FailedExportKeepsSession ==
    [][(dialog = "save" /\ lastOp' \in {"export_failed", "export_cancelled"}) =>
          /\ SameImage(full_image', exportPre)
          /\ <<preview_image', metadata_dict', camera_info', current_filename',
               exposure_slider', saturation_slider', vibrance_slider'>>
             = <<preview_image, metadata_dict, camera_info, current_filename,
                 exposure_slider, saturation_slider, vibrance_slider>>
      ]_vars

\* C9: right after a successful load the three parameters are zero, the two
\* buffers are those derived from the file just decoded, metadata, camera
\* info and filename are that file's, and the preview shows it unadjusted.
C9_LoadResets ==
    lastOp = "load_ok" =>
       /\ Loaded
       /\ exposure_slider = 0
       /\ saturation_slider = 0
       /\ vibrance_slider = 0
       /\ full_image = Normalize(File(current_filename).rgb8)
       /\ preview_image = Resize(full_image, full_image.w \div PreviewDiv,
                                 full_image.h \div PreviewDiv).img
       /\ metadata_dict = read_exif_metadata(current_filename)
       /\ camera_info = parse_camera_lens_exif(metadata_dict)
       /\ pixmap = To8(apply_adjustments(preview_image, 0, 0, 0))

\* C9 witness: a file was loaded over a session that had been edited and
\* committed.
C9_Witness ==
    /\ lastOp = "load_ok"
    /\ nCommits > 0
    /\ current_filename = "b.dng"

\* Parameter values across [-1, 1] handed to the engine.
EngineValues == {-100, -50, 0, 50, 100}

\* C10: every sample of the stored full-res buffer and of the stored preview
\* buffer lies in [0..1], and so does every sample the engine returns: for
\* the stored buffers with the current parameters in every state, and for
\* the buffers of a fresh load with any parameters in [-1, 1].
C10_RangeInvariant ==
    /\ InRange(full_image)
    /\ InRange(preview_image)
    /\ InRange(apply_adjustments(full_image, exposure_slider,
                                 saturation_slider, vibrance_slider))
    /\ InRange(apply_adjustments(preview_image, exposure_slider,
                                 saturation_slider, vibrance_slider))
    /\ lastOp = "load_ok" =>
          \A e \in EngineValues : \A s \in EngineValues : \A v \in EngineValues :
             /\ InRange(apply_adjustments(full_image, e, s, v))
             /\ InRange(apply_adjustments(preview_image, e, s, v))

\* C10 witness: a commit with exposure +1 has clamped a sample that the
\* file held below 1.0.
C10_Witness ==
    /\ current_filename = "a.arw"
    /\ lastOp = "timeout"
    /\ exposure_slider = 100
    /\ full_image.w = Decoded["a.arw"].full.w
    /\ \E i \in 1..Len(full_image.px) : \E c \in 1..3 :
         /\ full_image.px[i][c] = One
         /\ 2 * Decoded["a.arw"].full.px[i][c] > One
         /\ Decoded["a.arw"].full.px[i][c] < One

\* Sample levels of the buffers the identity is checked on besides the
\* stored ones: every pixel with its three samples among these.
GridLevels == {0, 85, 170, 255, 340, 425, 510, 595, 680, 765, 850, 935, 1020}

\* The two pixels differ by at most Tol in every sample.
NearPixel(p, q) == \A c \in 1..3 : p[c] - q[c] \in (0 - Tol)..Tol

\* apply_adjustments at (0, 0, 0) returns every grid pixel as it was.
IdentityOnGrid ==
    \A r \in GridLevels : \A g \in GridLevels : \A b \in GridLevels :
       NearPixel(AdjustPixel(<<r, g, b>>, 0, 0, 0), <<r, g, b>>)

\* C11: apply_adjustments with exposure, saturation and vibrance all zero
\* returns its buffer unchanged within one 8-bit level, for the stored
\* full-res and preview buffers of every state and for every grid pixel;
\* so a commit (timer or export) made while the three sliders are at zero
\* leaves the stored full-res buffer as it was.
C11_IdentityAtZero ==
    /\ [](/\ IdentityOnGrid
          /\ SameImage(apply_adjustments(full_image, 0, 0, 0), full_image)
          /\ SameImage(apply_adjustments(preview_image, 0, 0, 0),
                       preview_image))
    /\ [][(/\ lastOp' \in {"timeout", "export_committed"}
           /\ exposure_slider = 0
           /\ saturation_slider = 0
           /\ vibrance_slider = 0) => SameImage(full_image', full_image)]_vars

\* C11 witness: a commit with the three sliders at zero has run on a
\* full-res buffer that an earlier commit had adjusted.
C11_Witness ==
    /\ lastOp \in {"timeout", "export_committed"}
    /\ exposure_slider = 0
    /\ saturation_slider = 0
    /\ vibrance_slider = 0
    /\ Loaded
    /\ nCommits = 2
    /\ full_image # NoImage
    /\ full_image # Decoded[current_filename].full

\* The fields of the dict parse_camera_lens_exif returns.
InfoFields == {"camera_make", "camera_model", "lens_model", "focal_length",
               "f_number"}

\* C12: parse_camera_lens_exif returns its five fields for every dict, so
\* the load completes whatever the tags; a missing make, model or lens key
\* gives the empty string; focal_length is the number the first
\* whitespace-delimited token of 'EXIF FocalLength' denotes, and 50.0 when
\* the key is missing or the token does not parse; f_number is the number
\* 'EXIF FNumber' denotes, and 2.8 when the key is missing or the value does
\* not parse.
C12_ParseTotal ==
    lastOp = "load_ok" =>
       /\ DOMAIN camera_info = InfoFields
       /\ "Image Make" \notin DOMAIN metadata_dict => camera_info.camera_make = <<>>
       /\ "Image Model" \notin DOMAIN metadata_dict => camera_info.camera_model = <<>>
       /\ "EXIF LensModel" \notin DOMAIN metadata_dict => camera_info.lens_model = <<>>
       /\ "EXIF FocalLength" \notin DOMAIN metadata_dict =>
             camera_info.focal_length = 50000
       /\ "EXIF FNumber" \notin DOMAIN metadata_dict =>
             camera_info.f_number = 2800
       /\ \A fc \in FocalCases :
             ("EXIF FocalLength" \in DOMAIN metadata_dict
              /\ metadata_dict["EXIF FocalLength"] = fc.str) =>
                camera_info.focal_length = IF fc.parses THEN fc.val ELSE 50000
       /\ \A nc \in FNumberCases :
             ("EXIF FNumber" \in DOMAIN metadata_dict
              /\ metadata_dict["EXIF FNumber"] = nc.str) =>
                camera_info.f_number = IF nc.parses THEN nc.val ELSE 2800

\* C12 witness: a file was loaded whose tags hold a focal length with a
\* unit after the number and an f-number that is not a float, and lack the
\* make; the focal length was parsed and the f-number defaulted.
C12_Witness ==
    /\ lastOp = "load_ok"
    /\ DOMAIN metadata_dict = {"Image Model", "EXIF FocalLength", "EXIF FNumber"}
    /\ metadata_dict["EXIF FocalLength"] = <<"5", "6", ".", "0", " ", "m", "m">>
    /\ metadata_dict["EXIF FNumber"] = <<"f", "4">>
    /\ camera_info.focal_length = 56000
    /\ camera_info.f_number = 2800
    /\ camera_info.camera_make = <<>>
    /\ camera_info.camera_model = <<"A", "7">>

\* What parse_camera_lens_exif returns when it finds no tag.
DefaultInfo ==
    [camera_make |-> <<>>, camera_model |-> <<>>, lens_model |-> <<>>,
     focal_length |-> 50000, f_number |-> 2800]

\* The session was loaded from a file exifread could not read.
ExifFailed == Loaded /\ ~File(current_filename).exif_ok

\* C13: a file that decodes but whose EXIF cannot be read is loaded all the
\* same: the session has both buffers, an empty metadata dict and the
\* default camera info; and on that session a value change renders the
\* preview, a commit adjusts the full-res buffer and an export hands the
\* stored buffer to the encoder, as on any session.
C13_MetadataFailureNonFatal ==
    /\ [](ExifFailed =>
             /\ metadata_dict = EmptyDict
             /\ camera_info = DefaultInfo
             /\ full_image # NoImage
             /\ preview_image = Decoded[current_filename].resized.img
             /\ preview_image # NoImage)
    /\ [][ExifFailed' =>
             /\ lastOp' = "load_ok" =>
                   /\ full_image' = Decoded[current_filename'].full
                   /\ pixmap' = To8(preview_image')
             /\ lastOp' \in ChangeOps =>
                   pixmap' = To8(apply_adjustments(preview_image, exposure_slider',
                                                   saturation_slider',
                                                   vibrance_slider'))
             /\ lastOp' \in {"timeout", "export_committed"} =>
                   full_image' = apply_adjustments(full_image, exposure_slider,
                                                   saturation_slider,
                                                   vibrance_slider)
             /\ lastOp' \in {"export_written", "export_failed"} =>
                   encoded' = [path |-> encoded'.path, img |-> FinalBGR(full_image)]
          ]_vars

\* C13 witness: a file whose EXIF cannot be read was loaded, edited,
\* committed by the timer and exported to a file.
C13_Witness ==
    /\ ExifFailed
    /\ lastOp = "export_written"
    /\ exposure_slider = 100
    /\ nCommits = 2
    /\ metadata_dict = EmptyDict
    /\ encoded.img = FinalBGR(full_image)
    /\ full_image # Decoded[current_filename].full

\* The slider positions as the engine's three arguments.
Params == <<exposure_slider, saturation_slider, vibrance_slider>>

\* apply_adjustments with the arguments as a triple.
Apply(img, p) == apply_adjustments(img, p[1], p[2], p[3])

\* C14: a commit, by the timer or by export, replaces the stored full-res
\* buffer with the engine's output on the stored buffer (the result of the
\* commits before it, not the decoded pixels) and the slider values of that
\* moment; nothing but a commit or a load writes the full-res buffer, so k
\* commits leave apply(...apply(original, p1)..., pk); and the displayed
\* preview is the engine's output on the preview derived at load with the
\* current slider values.
C14_CommitsCompound ==
    /\ [][ /\ (lastOp' \in {"timeout", "export_committed"} /\ full_image # NoImage)
              => (/\ full_image' = Apply(full_image, Params)
                  /\ nCommits' = nCommits + 1)
           /\ (full_image' # full_image)
              => (lastOp' \in {"timeout", "export_committed", "load_ok",
                               "load_failed"})
           /\ (lastOp' \in {"load_ok", "load_failed"})
              => (\/ full_image' = full_image
                  \/ \E f \in FileNames : full_image' = Decoded[f].full)
         ]_vars
    /\ [](preview_image # NoImage =>
             /\ preview_image = Decoded[current_filename].resized.img
             /\ pixmap = To8(Apply(Decoded[current_filename].resized.img, Params)))

\* C14 witness: two commits with exposure +1 and saturation +1 have run on
\* a loaded file: the stored buffer is the engine applied twice to the
\* original, which is not the engine applied once, while the display is
\* still computed from the preview derived at load.
C14_Witness ==
    /\ Loaded
    /\ lastOp = "timeout"
    /\ nCommits = 2
    /\ Params = <<100, 100, 0>>
    /\ full_image = Apply(Apply(Decoded[current_filename].full, Params), Params)
    /\ full_image # Apply(Decoded[current_filename].full, Params)
    /\ pixmap = To8(Apply(Decoded[current_filename].resized.img, Params))

\* ------------------------------------- the engine over its parameter range
\* Loads and slider value changes, the sliders taking values across
\* setRange(-100, 100).
NextEngine ==
    \/ \E filename \in EngineFiles : load_raw(filename) /\ ClockOff
    \/ \E value \in EngineValues : on_exposure_changed(value) /\ ClockOff
    \/ \E value \in EngineValues : on_saturation_changed(value) /\ ClockOff
    \/ \E value \in EngineValues : on_vibrance_changed(value) /\ ClockOff

SpecEngine == Init /\ [][NextEngine]_vars

\* The pixel in HSV (hue in units of 60 degrees / One), from RGB.
HSVOf(p) == BGR2HSV(SwapRB(p))

\* The three steps on one pixel, written out: the samples times 2^exposure
\* clamped; on the HSV form of that, s' = clamp(s + s * saturation) and
\* s'' = clamp(s' + s' * vibrance * (1 - s')), hue and value as they were.
StepsInOrder(p, exposure, saturation, vibrance) ==
    LET x == [c \in 1..3 |->
                Min2(One, Max2(0, RoundDiv(p[c] * Pow2(exposure), ExpDen)))]
        hsv == HSVOf(x)
        s1 == Min2(One, Max2(0, hsv[2] + RoundDiv(hsv[2] * saturation, SliderDiv)))
        s2 == Min2(One, Max2(0, s1 + RoundDiv(s1 * vibrance * (One - s1),
                                              SliderDiv * One)))
    IN  [exposed |-> x, h |-> hsv[1], s |-> s2, v |-> hsv[3]]

\* The engine's output on pixel p is the RGB form of the three steps in
\* order, and its value (the largest sample) is that of the exposed pixel.
InOrder(p, exposure, saturation, vibrance) ==
    LET st == StepsInOrder(p, exposure, saturation, vibrance)
        q == AdjustPixel(p, exposure, saturation, vibrance)
    IN  /\ q = SwapRB(HSV2BGR(<<st.h, st.s, st.v>>))
        /\ HSVOf(q)[3] = st.v
        /\ (saturation = 0 /\ vibrance = 0) => NearPixel(q, <<st.exposed[1], st.exposed[2], st.exposed[3]>>)

\* The pixel and the parameters are generic: saturation and vibrance are not
\* zero, the exposed pixel is coloured (s at least 1/8) and not dark (v at
\* least 1/2), and no saturation value on the way, in either order of the
\* two steps, is clamped.
GenericCase(p, exposure, saturation, vibrance) ==
    LET hsv == HSVOf(StepsInOrder(p, exposure, saturation, vibrance).exposed)
        s0 == hsv[2]
        s1 == s0 + RoundDiv(s0 * saturation, SliderDiv)
        s2 == s1 + RoundDiv(s1 * vibrance * (One - s1), SliderDiv * One)
        t1 == s0 + RoundDiv(s0 * vibrance * (One - s0), SliderDiv * One)
        t2 == t1 + RoundDiv(t1 * saturation, SliderDiv)
    IN  /\ saturation # 0
        /\ vibrance # 0
        /\ 8 * s0 >= One
        /\ 2 * hsv[3] >= One
        /\ \A x \in {s1, s2, t1, t2} : x > 0 /\ x < One

\* On a generic pixel the engine's result is not that of vibrance applied
\* before saturation.
OrderShows(p, exposure, saturation, vibrance) ==
    GenericCase(p, exposure, saturation, vibrance) =>
       AdjustPixel(p, exposure, saturation, vibrance)
         # AdjustPixelVibranceFirst(p, exposure, saturation, vibrance)

\* C15: on every pixel of the stored buffers, with the current slider
\* values, apply_adjustments returns the result of exposure, then
\* saturation, then vibrance, the last two changing the saturation only;
\* and on every generic pixel, with non-zero saturation and vibrance, that
\* result differs from the one of vibrance applied before saturation.
C15_StepOrder ==
    /\ \A i \in 1..Len(full_image.px) :
          /\ InOrder(full_image.px[i], exposure_slider, saturation_slider,
                     vibrance_slider)
          /\ OrderShows(full_image.px[i], exposure_slider, saturation_slider,
                        vibrance_slider)
    /\ \A i \in 1..Len(preview_image.px) :
          /\ InOrder(preview_image.px[i], exposure_slider, saturation_slider,
                     vibrance_slider)
          /\ OrderShows(preview_image.px[i], exposure_slider, saturation_slider,
                        vibrance_slider)

\* C15 witness: the preview of a loaded file is shown with all three
\* parameters away from zero, one of its pixels is generic, and the order
\* of the last two steps shows in the result.
C15_Witness ==
    /\ current_filename = "c.raf"
    /\ lastOp = "on_vibrance_changed"
    /\ Params = <<50, 50, -50>>
    /\ pixmap = To8(Apply(preview_image, Params))
    /\ \E i \in 1..Len(preview_image.px) :
          /\ GenericCase(preview_image.px[i], 50, 50, -50)
          /\ AdjustPixel(preview_image.px[i], 50, 50, -50)
               # AdjustPixelVibranceFirst(preview_image.px[i], 50, 50, -50)
    /\ \E i \in 1..Len(full_image.px) :
          GenericCase(full_image.px[i], 50, 50, -50)

\* The values of lastOp after a value change, a slider release, the
\* timer's timeout, export_as_jpeg and show_metadata.
SlotOps == ChangeOps \cup Released \cup ExportReturned
             \cup {"timeout", "export_noop", "export_committed",
                   "metadata_noop", "show_metadata"}

\* C16 (as claimed): as long as no load has succeeded, a value change, a
\* slider release, the timer's timeout, export and the metadata view leave
\* the session alone: the buffers and what is displayed stay as they are,
\* the engine is not run, no dialog opens and nothing goes to the encoder.
C16_EmptyNoOps ==
    [][(~Loaded /\ lastOp' \in SlotOps) =>
          /\ <<full_image', preview_image', pixmap', metadata_dict',
               camera_info', current_filename', nCommits'>>
             = <<full_image, preview_image, pixmap, metadata_dict,
                 camera_info, current_filename, nCommits>>
          /\ dialog' = "none"
          /\ encoded' = NoEncoded]_vars

\* Every buffer the full-res buffer of a session loaded from file f can
\* be: the decoded pixels after up to MaxCommits commits with the slider
\* positions of the model.
RECURSIVE Committed(_, _)
Committed(f, k) ==
    IF k = 0 THEN {Decoded[f].full}
    ELSE Committed(f, k - 1) \cup
         { Apply(img, p) : img \in Committed(f, k - 1),
                           p \in ExposureValues \X SaturationValues
                                   \X VibranceValues }

Derived == [f \in FileNames |-> Committed(f, MaxCommits)]

\* C17 (as claimed): the full-res and the preview buffer are both absent or
\* both present, and when present they come from the same file: the preview
\* is the one derived from the decoded pixels of the session's file and the
\* full-res buffer is those pixels, as decoded or after commits.
C17_PairFromOneLoad ==
    \/ full_image = NoImage /\ preview_image = NoImage
    \/ /\ Loaded
       /\ full_image # NoImage
       /\ preview_image # NoImage
       /\ preview_image = Decoded[current_filename].resized.img
       /\ full_image \in Derived[current_filename]

====
